---- MODULE Spec2Model ----
(***************************************************************************)
(* The per-frame simulation of src/src/main.rs: five Bevy systems          *)
(* (move_road, move_player, shoot, move_bullet, move_enemies) over an      *)
(* entity store, with buffered spawn/despawn commands applied at the end   *)
(* of the frame.                                                           *)
(*                                                                         *)
(* Numbers.  The source computes in f32 and the model does too.  An f32    *)
(* is held as one integer, its bit pattern read as a sign and a magnitude: *)
(*     +-(E * 2^23 + F)   for the f32 with biased exponent E and fraction  *)
(*                        field F, i.e. +-(2^23 + F) * 2^(E - 150)         *)
(*     0                  for 0.0 (and -0.0)                               *)
(* so 1.0 is 127 * 2^23 = 1065353216, and the order of these integers is   *)
(* the order of the floats: <, <=, -, Abs on them are the f32 comparisons, *)
(* negation and abs.  Add, Sub, Mul, Div and Rem below round to nearest,   *)
(* ties to even, as the hardware does.  Infinities and NaN do not occur.   *)
(*                                                                         *)
(* The clock is Bevy's Time: elapsed and delta are Durations, held in      *)
(* milliseconds; the systems read them through as_secs_f32.                *)
(***************************************************************************)
EXTENDS Integers, FiniteSets, Sequences, TLC

VARIABLES
    tag,        \* entity id -> "road" | "player" | "enemy" | "bullet"
    transform,  \* entity id -> [x, z]   (Transform.translation), f32
    global_tf,  \* entity id -> [x, z]   (GlobalTransform.translation()), f32
    gun,        \* entity id -> [last_fired (f32), handles]  (the Gun components)
    commands,   \* buffered Commands of this frame: [despawn, spawn]
    next_id,    \* next entity id commands.spawn reserves
    time,       \* Time::elapsed, in ms
    delta,      \* Time::delta, in ms
    keys,       \* ButtonInput<KeyCode>: [left, right, up, down]
    scan,       \* the order in which a query iterates over the enemies
    ran,        \* systems of the Update schedule that ran this frame
    phase,      \* "new" before Update first runs, "ready" before the first
                \* frame, "idle" between frames, "update" inside one
    aborted,    \* the program panicked
    log         \* lines printed to stdout during this frame

vars == <<ran, phase, aborted, tag, transform, global_tf, gun, commands,
          next_id, time, delta, keys, scan, log>>

---------------------------------------------------------------------------
(* f32 *)

TwoTo(k) == 2 ^ k

\* f32::abs
Abs(a) == IF a < 0 THEN -a ELSE a

Sign(a) == IF a < 0 THEN -1 ELSE 1

BitLen[n \in Nat] == IF n = 0 THEN 0 ELSE 1 + BitLen[n \div 2]

\* 2^23: the weight of the hidden bit of the 24-bit significand
FRAC == TwoTo(23)

\* significand and exponent: |a| = Mant(a) * 2^(Expo(a) - 150)
Mant(a) == IF Abs(a) < FRAC THEN Abs(a) ELSE FRAC + (Abs(a) % FRAC)

Expo(a) == IF Abs(a) < FRAC THEN 1 ELSE Abs(a) \div FRAC

\* the same with a 24-bit significand, also for a subnormal a:
\* |a| = NormMant(a) * 2^(NormExpo(a) - 150),  2^23 <= NormMant(a) < 2^24
NormMant(a) == Mant(a) * TwoTo(24 - BitLen[Mant(a)])

NormExpo(a) == Expo(a) - (24 - BitLen[Mant(a)])

\* q with its lowest bit set when bits were shifted out below it
Sticky(q, rest) == IF rest = 0 \/ q % 2 = 1 THEN q ELSE q + 1

\* the low bits of n that n * 2^e loses in an f32: those beyond 24
\* significant bits, and those below 2^-149
Drop(n, e) ==
    LET s0 == BitLen[n] - 24
    IN  IF s0 > -149 - e THEN s0 ELSE -149 - e

\* n * 2^e with its s low bits rounded off, ties to even  (0 < n < 2^31;
\* with 31 bits dropped the value is below 2^-149 and rounds to the
\* smallest subnormal when it is above the tie 2^-150, with more to 0)
Pack[n \in Int, e \in Int, s \in Int] ==
    IF s > 31 THEN 0
    ELSE IF s = 31 THEN (IF n > TwoTo(30) THEN 1 ELSE 0)
    ELSE IF s <= 0 THEN ((e + s + 149) * FRAC) + (n * TwoTo(-s))
    ELSE LET q == n \div TwoTo(s)
             r == n % TwoTo(s)
             h == TwoTo(s - 1)
             up == r > h \/ (r = h /\ q % 2 = 1)
         IN  ((e + s + 149) * FRAC) + q + (IF up THEN 1 ELSE 0)

\* the f32 nearest to n * 2^e, ties to even  (0 <= n < 2^31)
Round[n \in Int, e \in Int] == IF n = 0 THEN 0 ELSE Pack[n, e, Drop(n, e)]

\* f32 +
Add[a \in Int, b \in Int] ==
    IF a = 0 THEN b
    ELSE IF b = 0 THEN a
    ELSE LET big == IF Abs(a) >= Abs(b) THEN a ELSE b
             sml == IF Abs(a) >= Abs(b) THEN b ELSE a
             d   == Expo(big) - Expo(sml)
             A   == Mant(big) * 8
             B0  == Mant(sml) * 8
             B   == IF d > 27 THEN 1
                    ELSE Sticky(B0 \div TwoTo(d), B0 % TwoTo(d))
             S   == IF Sign(a) = Sign(b) THEN A + B ELSE A - B
         IN  Sign(big) * Round[S, Expo(big) - 153]

\* f32 -
Sub[a \in Int, b \in Int] == Add[a, -b]

\* f32 *
Mul[a \in Int, b \in Int] ==
    IF a = 0 \/ b = 0 THEN 0
    ELSE LET aH == NormMant(a) \div 4096
             aL == NormMant(a) % 4096
             bH == NormMant(b) \div 4096
             bL == NormMant(b) % 4096
             mid == (aH * bL) + (aL * bH)
             low == (aL * bL) + ((mid % 4096) * 4096)
             lo  == low % TwoTo(24)
             hi  == (aH * bH) + (mid \div 4096) + (low \div TwoTo(24))
             N   == Sticky((hi * 64) + (lo \div TwoTo(18)), lo % TwoTo(18))
         IN  Sign(a) * Sign(b) * Round[N, NormExpo(a) + NormExpo(b) - 282]

\* f32 /   (b # 0)
Div[a \in Int, b \in Int] ==
    IF a = 0 THEN 0
    ELSE LET m  == NormMant(b)
             q1 == (NormMant(a) * 128) \div m
             r1 == (NormMant(a) * 128) % m
             q2 == (r1 * 128) \div m
             r2 == (r1 * 128) % m
             q3 == (r2 * 128) \div m
             r3 == (r2 * 128) % m
             q4 == (r3 * 128) \div m
             r4 == (r3 * 128) % m
             q  == ((q1 * 128 + q2) * 128 + q3) * 128 + q4
         IN  Sign(a) * Sign(b) * Round[Sticky(q, r4), NormExpo(a) - NormExpo(b) - 28]

RemShift[r \in Nat, d \in Nat, m \in Nat] ==
    IF d = 0 THEN r
    ELSE LET k == IF d < 7 THEN d ELSE 7
         IN  RemShift[(r * TwoTo(k)) % m, d - k, m]

\* Rust's `%` on f32 (fmod): exact, the remainder has the sign of the
\* dividend
Rem[a \in Int, b \in Int] ==
    IF Abs(a) < Abs(b) THEN a
    ELSE Sign(a) * Round[RemShift[Mant(a) % Mant(b), Expo(a) - Expo(b), Mant(b)],
                         Expo(b) - 150]

\* f32::clamp
Clamp(v, lo, hi) == IF v < lo THEN lo ELSE IF v > hi THEN hi ELSE v

\* f32::min
Min(a, b) == IF a < b THEN a ELSE b

\* `n as f32`
FromInt[n \in Int] == Sign(n) * Round[Abs(n), 0]

\* the f32 a decimal literal n/d of the source denotes  (n, d < 2^24)
Lit[n \in Int, d \in Int] == Div[FromInt[n], FromInt[d]]

\* Duration::as_secs_f32: (secs as f32) + (nanos as f32) / 1e9
as_secs_f32(ms) ==
    Add[FromInt[ms \div 1000],
        Div[FromInt[(ms % 1000) * 1000000], FromInt[1000000000]]]

---------------------------------------------------------------------------
(* Program constants, main.rs:9..16 and the literals of the systems. *)

LEN_SEG == Lit[18, 10]
ROAD_VEL == Lit[1, 1]
PLAYER_VEL == Lit[1, 1]
PLAYER_GUN_PERIOD == Lit[5, 10]
BULLET_VEL == Lit[50, 1]
ENEMY_SIZE == Lit[3, 10]
ENEMY_VEL == Lit[5, 10]

\* move_road: `t.translation.z.abs() > 1.`, `div < 0.01`, `10. * LEN_SEG`
ROAD_WRAP_ABS == Lit[1, 1]
ROAD_WRAP_REM == Lit[1, 100]
ROAD_WRAP_SEGS == Lit[10, 1]
\* move_player: x_width = 3.6, `x_width / 2.0`, clamp(0.0, 5.0)
X_WIDTH == Lit[36, 10]
TWO == Lit[2, 1]
PLAYER_Z_MIN == Lit[0, 1]
PLAYER_Z_MAX == Lit[5, 1]
\* move_bullet: `p.translation.z.abs() > 100.`
BULLET_RANGE == Lit[100, 1]
\* setup: road at z = 10 * LEN_SEG, player at (0, 0), enemy at (0, -5)
ROAD_START_Z == Mul[ROAD_WRAP_SEGS, LEN_SEG]
ENEMY_START_Z == Lit[-5, 1]
ROAD_ID == 1
PLAYER_ID == 2
ENEMY_ID == 3
FIRST_FREE_ID == 4

---------------------------------------------------------------------------
(* Bounds of the model. *)

\* The frame clock stops at a cap on the elapsed time, one cap per
\* specification, counted in the steps named with each specification.
MaxTime == 3
PlayerMaxTime == 1
GunMaxTime == 18
BulletMaxTime == 5
RoadMaxTime == 20
GapMaxTime == 2
LifeMaxTime == 30
BufferMaxTime == 4
\* at most this many enemies / bullets are drawn from a pool
MaxEnemies == 2
MaxBullets == 2
\* the long runs (the road, the life of a bullet) draw their frame gaps
\* from a set for this long (ms) and have full frames afterwards
WarmUp == 250

\* Time<Virtual> hands the systems at most this much (ms) of a frame's real
\* time, as `delta` and as the advance of `elapsed`: Bevy's default
\* max_delta, which main.rs leaves as DefaultPlugins sets it
MAX_DELTA == 250

\* the real time (ms) between two frames that the frame driver may take;
\* a stall longer than MAX_DELTA reaches the systems as MAX_DELTA
Deltas == {0, 200, 400}
PlayerDeltas == {0, 200}
GunDeltas == {100, 250}
BulletDeltas == {0, 40, 200}
RoadDeltas == IF time < WarmUp THEN {0, 40, 250} ELSE {0, 250}
\* a stall of ten cooldown periods
GapDeltas == {250, 5000}
\* deltas bounded away from zero
LifeDeltas == IF time < WarmUp THEN {200, 250} ELSE {250}

KeyStates == [left : BOOLEAN, right : BOOLEAN, up : BOOLEAN, down : BOOLEAN]
NoKeys == [left |-> FALSE, right |-> FALSE, up |-> FALSE, down |-> FALSE]
\* the key states drawn where the player's moves are not the subject
FrameKeys == {k \in KeyStates : ~k.left /\ ~k.up}

Systems == {"move_road", "move_player", "shoot", "move_bullet", "move_enemies"}

\* the Update schedule runs each of its systems once per frame, and a panic
\* ends the app
Runnable(s) == phase = "update" /\ ~aborted /\ s \notin ran

---------------------------------------------------------------------------
(* The entity store and the clock *)

Entities == DOMAIN tag
With(t) == {e \in Entities : tag[e] = t}
Roads == With("road")
Players == With("player")
Enemies == With("enemy")
Bullets == With("bullet")
Guns == DOMAIN gun

\* Time::delta_seconds, Time::elapsed_seconds
delta_seconds == as_secs_f32(delta)
elapsed_seconds == as_secs_f32(time)

---------------------------------------------------------------------------
(* move_road, main.rs:43..53 *)

\* mutant: the wrap forgets the remainder
RoadStepNoRem(z, secs) ==
    LET z1 == Sub[z, Mul[secs, ROAD_VEL]]
        div == Rem[z1, LEN_SEG]
    IN  IF Abs(z1) > ROAD_WRAP_ABS /\ div < ROAD_WRAP_REM
        THEN Mul[ROAD_WRAP_SEGS, LEN_SEG]
        ELSE z1

\* mutant: the wrap adds ten segments to z instead of to the remainder
RoadStepWrapAdd(z, secs) ==
    LET z1 == Sub[z, Mul[secs, ROAD_VEL]]
        div == Rem[z1, LEN_SEG]
    IN  IF Abs(z1) > ROAD_WRAP_ABS /\ div < ROAD_WRAP_REM
        THEN Add[z1, Mul[ROAD_WRAP_SEGS, LEN_SEG]]
        ELSE z1

\* mutant: `.abs()` is missing, a negative z is never wrapped
RoadStepNoAbs(z, secs) ==
    LET z1 == Sub[z, Mul[secs, ROAD_VEL]]
        div == Rem[z1, LEN_SEG]
    IN  IF z1 > ROAD_WRAP_ABS /\ div < ROAD_WRAP_REM
        THEN Add[div, Mul[ROAD_WRAP_SEGS, LEN_SEG]]
        ELSE z1

\* the road's z after one pass of the loop body; z and secs are f32
RoadStep(z, secs) ==
    LET z1 == Sub[z, Mul[secs, ROAD_VEL]]
        div == Rem[z1, LEN_SEG]
    IN  IF Abs(z1) > ROAD_WRAP_ABS /\ div < ROAD_WRAP_REM
        THEN Add[div, Mul[ROAD_WRAP_SEGS, LEN_SEG]]
        ELSE z1

MoveRoad ==
    /\ Runnable("move_road")
    /\ ran' = ran \cup {"move_road"}
    /\ transform' = [e \in Entities |->
                        IF tag[e] = "road"
                        THEN [transform[e] EXCEPT !.z = RoadStep(@, delta_seconds)]
                        ELSE transform[e]]
    /\ UNCHANGED <<tag, global_tf, gun, commands, next_id, time, delta, keys,
                   scan, phase, aborted, log>>

---------------------------------------------------------------------------
(* decode_move, main.rs:56..73, and move_player, main.rs:87..102 *)

\* mutant: the left and up tests come last and win
decode_moveLeftWins(input, elapsed) ==
    LET x0 == IF input.right THEN PLAYER_VEL ELSE 0
        x  == IF input.left THEN -PLAYER_VEL ELSE x0
        z0 == IF input.down THEN PLAYER_VEL ELSE 0
        z  == IF input.up THEN -PLAYER_VEL ELSE z0
    IN  <<Mul[x, elapsed], Mul[z, elapsed]>>

\* input: the four keys; elapsed: f32
decode_move(input, elapsed) ==
    LET x0 == IF input.left THEN -PLAYER_VEL ELSE 0
        x  == IF input.right THEN PLAYER_VEL ELSE x0
        z0 == IF input.up THEN -PLAYER_VEL ELSE 0
        z  == IF input.down THEN PLAYER_VEL ELSE z0
    IN  <<Mul[x, elapsed], Mul[z, elapsed]>>

\* mutant: x is not clamped
PlayerStepNoClampX(tl, input, secs) ==
    LET d == decode_move(input, secs)
    IN  [x |-> Add[tl.x, d[1]],
         z |-> Clamp(Add[tl.z, d[2]], PLAYER_Z_MIN, PLAYER_Z_MAX)]

\* the player's translation after move_player; secs is f32
PlayerStep(tl, input, secs) ==
    LET d == decode_move(input, secs)
    IN  [x |-> Clamp(Add[tl.x, d[1]], Div[-X_WIDTH, TWO], Div[X_WIDTH, TWO]),
         z |-> Clamp(Add[tl.z, d[2]], PLAYER_Z_MIN, PLAYER_Z_MAX)]

\* mutant: `single_mut()` replaced by a loop over the players found
MovePlayerLenient ==
    /\ Runnable("move_player")
    /\ ran' = ran \cup {"move_player"}
    /\ transform' = [e \in Entities |->
                        IF tag[e] = "player"
                        THEN PlayerStep(transform[e], keys, delta_seconds)
                        ELSE transform[e]]
    /\ UNCHANGED <<tag, global_tf, gun, commands, next_id, time, delta, keys,
                   scan, phase, aborted, log>>

MovePlayer ==
    /\ Runnable("move_player")
    /\ IF Cardinality(Players) = 1
       THEN /\ ran' = ran \cup {"move_player"}
            /\ transform' = [e \in Entities |->
                                IF tag[e] = "player"
                                THEN PlayerStep(transform[e], keys, delta_seconds)
                                ELSE transform[e]]
            /\ UNCHANGED aborted
       ELSE \* single_mut() panics
            /\ aborted' = TRUE
            /\ UNCHANGED <<transform, ran>>
    /\ UNCHANGED <<tag, global_tf, gun, commands, next_id, time, delta, keys,
                   scan, phase, log>>

---------------------------------------------------------------------------
(* move_enemies, main.rs:104..118 *)

\* the value of the local `t.z` at the end of the loop body for enemy e
EnemyCandidate(e) ==
    LET z1 == Sub[transform[e].z, Mul[ENEMY_VEL, delta_seconds]]
    IN  IF Cardinality(Players) = 1
        THEN Min(z1, transform[CHOOSE p \in Players : TRUE].z)
        ELSE z1

\* `let mut t = transform.translation` copies the Vec3: nothing is stored
\* mutant: the local copy is written back
EnemyStoredCommitted(e) == [transform[e] EXCEPT !.z = EnemyCandidate(e)]

EnemyStored(e) == transform[e]

\* mutant: the diagnostic is missing
NoPlayerLinesSilent == <<>>

NoPlayerLines ==
    IF Cardinality(Players) = 1 THEN <<>>
    ELSE [i \in 1..Cardinality(Enemies) |-> "no player????"]

MoveEnemies ==
    /\ Runnable("move_enemies")
    /\ ran' = ran \cup {"move_enemies"}
    /\ transform' = [e \in Entities |->
                        IF tag[e] = "enemy" THEN EnemyStored(e) ELSE transform[e]]
    /\ log' = log \o NoPlayerLines
    /\ UNCHANGED <<tag, global_tf, gun, commands, next_id, time, delta, keys,
                   scan, phase, aborted>>

---------------------------------------------------------------------------
(* shoot, main.rs:120..159 *)

\* mutant: `>=` for `>`
FiresAtPeriod(g) == Sub[elapsed_seconds, gun[g].last_fired] >= PLAYER_GUN_PERIOD

Fires(g) == Sub[elapsed_seconds, gun[g].last_fired] > PLAYER_GUN_PERIOD

Firing == {g \in Guns : Fires(g)}

\* the bullet a firing gun spawns; ids are reserved in query order
\* mutant: the bullet is spawned at the gun's Transform, which move_player
\* writes, instead of its GlobalTransform
SpawnedAtTransform(g) ==
    [id |-> next_id + Cardinality({h \in Firing : h < g}),
     x |-> transform[g].x, z |-> transform[g].z]

Spawned(g) ==
    [id |-> next_id + Cardinality({h \in Firing : h < g}),
     x |-> global_tf[g].x, z |-> global_tf[g].z]

\* mutant: last_fired is not set
GunStepNoStamp(g) ==
    IF Fires(g) THEN [gun[g] EXCEPT !.handles = TRUE] ELSE gun[g]

GunStep(g) ==
    IF Fires(g) THEN [last_fired |-> elapsed_seconds, handles |-> TRUE] ELSE gun[g]

\* mutant: a late gun catches up, one bullet for every cooldown period it
\* is late:  while now - last_fired > PERIOD { spawn; last_fired += PERIOD }
\* (written for the one gun of the worlds checked, at most 12 periods late)
ShootCatchUp ==
    LET due(g) == {k \in 0..11 :
                    Sub[Sub[elapsed_seconds, gun[g].last_fired], Lit[5 * k, 10]]
                        > PLAYER_GUN_PERIOD}
    IN  /\ Runnable("shoot")
        /\ ran' = ran \cup {"shoot"}
        /\ gun' = [g \in Guns |-> GunStep(g)]
        /\ commands' = [commands EXCEPT
                          !.spawn = @ \cup UNION
                            {{[id |-> next_id + k, x |-> global_tf[g].x,
                               z |-> global_tf[g].z] : k \in due(g)} : g \in Firing}]
        /\ next_id' = next_id + Cardinality(UNION {due(g) : g \in Firing})
    /\ UNCHANGED <<tag, transform, global_tf, time, delta, keys, scan, phase,
                   aborted, log>>

Shoot ==
    /\ Runnable("shoot")
    /\ ran' = ran \cup {"shoot"}
    /\ gun' = [g \in Guns |-> GunStep(g)]
    /\ commands' = [commands EXCEPT
                      !.spawn = @ \cup {Spawned(g) : g \in Firing}]
    /\ next_id' = next_id + Cardinality(Firing)
    /\ UNCHANGED <<tag, transform, global_tf, time, delta, keys, scan, phase,
                   aborted, log>>

---------------------------------------------------------------------------
(* move_bullet, main.rs:161..198 *)

\* mutant: `.abs()` is missing
OutOfRangeSigned(b) == transform[b].z > BULLET_RANGE

OutOfRange(b) == Abs(transform[b].z) > BULLET_RANGE

\* mutant: the bullet moves towards +z
NewZForward(b) == Add[transform[b].z, Mul[delta_seconds, BULLET_VEL]]

NewZ(b) == Sub[transform[b].z, Mul[delta_seconds, BULLET_VEL]]

\* mutant: the new position is sampled against the enemy's size
CrossesSampled(b, e) ==
    Abs(Sub[NewZ(b), global_tf[e].z]) <= Div[ENEMY_SIZE, TWO]

Crosses(b, e) ==
    /\ transform[b].z >= global_tf[e].z
    /\ NewZ(b) <= global_tf[e].z

Lateral(b, e) ==
    Abs(Sub[transform[b].x, global_tf[e].x]) <= Div[ENEMY_SIZE, TWO]

\* mutant: an out-of-range bullet skips the enemy scan
MatchesInRange(b) ==
    IF OutOfRange(b) THEN {}
    ELSE {e \in Enemies : Crosses(b, e) /\ Lateral(b, e)}

Matches(b) == {e \in Enemies : Crosses(b, e) /\ Lateral(b, e)}

\* the first entity of the iteration order s that is in S  (S not empty)
First(s, S) ==
    s[CHOOSE i \in DOMAIN s : s[i] \in S /\ \A j \in 1..(i - 1) : s[j] \notin S]

\* mutant: `break` is missing
KillsAll(b) == {e \in Enemies : Crosses(b, e) /\ Lateral(b, e)}

\* mutant: an enemy hit by an earlier bullet of the frame is gone at once
KillsExclusive(b) ==
    IF Matches(b) = {} THEN {}
    ELSE IF \E c \in Bullets :
                c < b /\ Matches(c) # {}
                      /\ First(scan, Matches(c)) = First(scan, Matches(b))
         THEN {}
         ELSE {First(scan, Matches(b))}

\* the enemies bullet b despawns: the first match of the scan, then `break`
Kills(b) == IF Matches(b) = {} THEN {} ELSE {First(scan, Matches(b))}

was_kil(b) == Kills(b) # {}

BulletDespawns(b) ==
    (IF OutOfRange(b) THEN {b} ELSE {})
        \cup Kills(b)
        \cup (IF was_kil(b) THEN {b} ELSE {})

\* mutant: new_z is committed after a hit too
BulletStoredAlways(b) == [transform[b] EXCEPT !.z = NewZ(b)]

BulletStored(b) ==
    IF was_kil(b) THEN transform[b] ELSE [transform[b] EXCEPT !.z = NewZ(b)]

MoveBullet ==
    /\ Runnable("move_bullet")
    /\ ran' = ran \cup {"move_bullet"}
    /\ transform' = [e \in Entities |->
                        IF tag[e] = "bullet" THEN BulletStored(e) ELSE transform[e]]
    /\ commands' = [commands EXCEPT
                      !.despawn = @ \cup UNION {BulletDespawns(b) : b \in Bullets}]
    /\ log' = log \o [i \in 1..Cardinality({b \in Bullets : was_kil(b)}) |-> "GOTTEM"]
    /\ UNCHANGED <<tag, global_tf, gun, next_id, time, delta, keys, scan, phase,
                   aborted>>

---------------------------------------------------------------------------
(* The Update schedule, main.rs:29..33.  The first time it runs, Bevy       *)
(* initialises every system of the schedule, before any of them runs: a    *)
(* system whose Query parameters may alias (one writes a component the     *)
(* other accesses, and no With/Without pair keeps them apart) panics there *)
(* (error B0001).                                                          *)

\* the Query parameters of each system: the components it reads and writes
\* and its With<..> / Without<..> filters
Queries ==
    [move_road |->
        {[reads |-> {}, writes |-> {"Transform"}, with |-> {"Road"}, without |-> {}]},
     move_player |->
        {[reads |-> {}, writes |-> {"Transform"}, with |-> {"Player"}, without |-> {}]},
     move_enemies |->
        {[reads |-> {}, writes |-> {"Transform"}, with |-> {"Enemy"}, without |-> {}],
         [reads |-> {"Transform"}, writes |-> {}, with |-> {"Player"}, without |-> {}]},
     shoot |->
        {[reads |-> {"GlobalTransform"}, writes |-> {"Gun"}, with |-> {}, without |-> {}]},
     move_bullet |->
        {[reads |-> {}, writes |-> {"Transform"}, with |-> {"Bullet"}, without |-> {}],
         [reads |-> {"GlobalTransform"}, writes |-> {}, with |-> {"Enemy"}, without |-> {}]}]

\* no entity can match both queries
QueriesDisjoint(p, q) ==
    p.with \cap q.without # {} \/ p.without \cap q.with # {}

QueriesConflict(p, q) ==
    /\ \/ p.writes \cap (q.reads \cup q.writes) # {}
       \/ q.writes \cap (p.reads \cup p.writes) # {}
    /\ ~QueriesDisjoint(p, q)

\* system s cannot be initialised
B0001(s) == \E p, q \in Queries[s] : p # q /\ QueriesConflict(p, q)

InitializeUpdate ==
    /\ phase = "new" /\ ~aborted
    /\ IF \E s \in Systems : B0001(s)
       THEN aborted' = TRUE /\ UNCHANGED phase
       ELSE phase' = "ready" /\ UNCHANGED aborted
    /\ UNCHANGED <<tag, transform, global_tf, gun, commands, next_id, time,
                   delta, keys, scan, ran, log>>

---------------------------------------------------------------------------
(* The frame: the clock and the input are updated before the Update        *)
(* schedule, the five systems of main.rs:29..33 run in any order, then     *)
(* the buffered commands are applied and the transforms are propagated.    *)

NoCommands == [despawn |-> {}, spawn |-> {}]

\* the orders in which a query may iterate over the entities S: the source
\* fixes none, and Bevy promises none
ScanOrders(S) ==
    {s \in [1..Cardinality(S) -> S] : \A i, j \in DOMAIN s : s[i] = s[j] => i = j}

\* the real time the first frame (phase "ready") and a later frame report:
\* Time<Real> has no previous instant in its first update and reports 0
FrameDeltas(D) == IF phase = "ready" THEN {0} ELSE D

\* D: real frame gaps, K: key states, T: the specification's clock cap
BeginTick(D, K, T) ==
    /\ phase \in {"ready", "idle"} /\ ~aborted
    /\ \E d \in FrameDeltas(D), k \in K :
        /\ time + Min(d, MAX_DELTA) <= T
        /\ time' = time + Min(d, MAX_DELTA)
        /\ delta' = Min(d, MAX_DELTA)
        /\ keys' = k
    /\ scan' \in ScanOrders(Enemies)
    /\ phase' = "update"
    /\ ran' = {}
    /\ log' = <<>>
    /\ UNCHANGED <<tag, transform, global_tf, gun, commands, next_id, aborted>>

Survivors == Entities \ commands.despawn

SpawnIds == {s.id : s \in commands.spawn}

SpawnOf(i) == CHOOSE s \in commands.spawn : s.id = i

EndTick ==
    /\ phase = "update" /\ ~aborted /\ ran = Systems
    /\ tag' = [e \in Survivors \cup SpawnIds |->
                  IF e \in SpawnIds THEN "bullet" ELSE tag[e]]
    /\ transform' = [e \in Survivors \cup SpawnIds |->
                        IF e \in SpawnIds
                        THEN [x |-> SpawnOf(e).x, z |-> SpawnOf(e).z]
                        ELSE transform[e]]
    /\ global_tf' = transform'
    /\ gun' = [g \in Guns \ commands.despawn |-> gun[g]]
    /\ commands' = NoCommands
    /\ scan' = <<>>
    /\ phase' = "idle"
    /\ UNCHANGED <<next_id, time, delta, keys, ran, aborted, log>>

---------------------------------------------------------------------------
(* setup, main.rs:200..265, and the program as main builds it *)

\* a world with the entities tg at the positions tf and the guns gn, at
\* elapsed time t: before the schedule is initialised (ph = "new"), before
\* the first frame (ph = "ready") or between two frames (ph = "idle")
World(tg, tf, gn, nid, t, ph) ==
    /\ tag = tg
    /\ transform = tf
    /\ global_tf = tf
    /\ gun = gn
    /\ commands = NoCommands
    /\ next_id = nid
    /\ time = t
    /\ delta = 0
    /\ keys = NoKeys
    /\ scan = <<>>
    /\ ran = {}
    /\ phase = ph
    /\ aborted = FALSE
    /\ log = <<>>

SetupTag == (ROAD_ID :> "road") @@ (PLAYER_ID :> "player") @@ (ENEMY_ID :> "enemy")

SetupTransform ==
    (ROAD_ID :> [x |-> 0, z |-> ROAD_START_Z])
        @@ (PLAYER_ID :> [x |-> 0, z |-> 0])
        @@ (ENEMY_ID :> [x |-> 0, z |-> ENEMY_START_Z])

\* Gun::default()
SetupGun == (PLAYER_ID :> [last_fired |-> 0, handles |-> FALSE])

Init == World(SetupTag, SetupTransform, SetupGun, FIRST_FREE_ID, 0, "new")

Next ==
    \/ InitializeUpdate
    \/ BeginTick(Deltas, FrameKeys, MaxTime * 200)
    \/ MoveRoad
    \/ MovePlayer
    \/ Shoot
    \/ MoveBullet
    \/ MoveEnemies
    \/ EndTick

Spec == Init /\ [][Next]_vars

---------------------------------------------------------------------------
(* The frames of the world of setup.  This and the specifications below    *)
(* start with the Update schedule initialised and run the systems as the   *)
(* schedule runs them, from the first frame on.                            *)

InitFrames == World(SetupTag, SetupTransform, SetupGun, FIRST_FREE_ID, 0, "ready")

NextFrames ==
    \/ BeginTick(Deltas, FrameKeys, MaxTime * 200)
    \/ MoveRoad
    \/ MovePlayer
    \/ Shoot
    \/ MoveBullet
    \/ MoveEnemies
    \/ EndTick

SpecFrames == InitFrames /\ [][NextFrames]_vars

---------------------------------------------------------------------------
(* The road over a long run: setup, no keys pressed, frames of 0 ms, of 40 *)
(* ms and of MAX_DELTA in the first WarmUp ms and of 0 ms and of MAX_DELTA *)
(* afterwards, which carry the road through its wraps.  RoadMaxTime is in  *)
(* seconds.                                                                *)

NextRoad ==
    \/ BeginTick(RoadDeltas, {NoKeys}, RoadMaxTime * 1000)
    \/ MoveRoad
    \/ MovePlayer
    \/ Shoot
    \/ MoveBullet
    \/ MoveEnemies
    \/ EndTick

SpecRoad == InitFrames /\ [][NextRoad]_vars

---------------------------------------------------------------------------
(* The gun over several cooldown periods: setup, no keys pressed.          *)
(* GunMaxTime is in steps of 100 ms.                                       *)

NextGun ==
    \/ BeginTick(GunDeltas, {NoKeys}, GunMaxTime * 100)
    \/ MoveRoad
    \/ MovePlayer
    \/ Shoot
    \/ MoveBullet
    \/ MoveEnemies
    \/ EndTick

SpecGun == InitFrames /\ [][NextGun]_vars

---------------------------------------------------------------------------
(* The player anywhere in the play area when a frame starts, every key     *)
(* state.  PlayerMaxTime is in steps of 200 ms.                            *)

PlayerXs == {Div[-X_WIDTH, TWO], Lit[-17, 10], 0, Lit[17, 10], Div[X_WIDTH, TWO]}
PlayerZs == {PLAYER_Z_MIN, Lit[1, 10], Lit[49, 10], PLAYER_Z_MAX}

InitPlayer ==
    \E px \in PlayerXs, pz \in PlayerZs :
        World(SetupTag,
              [SetupTransform EXCEPT ![PLAYER_ID] = [x |-> px, z |-> pz]],
              SetupGun, FIRST_FREE_ID, 0, "idle")

NextPlayer ==
    \/ BeginTick(PlayerDeltas, KeyStates, PlayerMaxTime * 200)
    \/ MoveRoad
    \/ MovePlayer
    \/ Shoot
    \/ MoveBullet
    \/ MoveEnemies
    \/ EndTick

SpecPlayer == InitPlayer /\ [][NextPlayer]_vars

---------------------------------------------------------------------------
(* Bullets and enemies drawn from pools of positions: move_bullet is       *)
(* written for any number of bullets and enemies, setup creates one enemy  *)
(* and shoot one bullet per shot.  BulletMaxTime is in steps of 40 ms.     *)

EnemyPool ==
    {[id |-> 3, x |-> 0, z |-> ENEMY_START_Z],
     [id |-> 4, x |-> 0, z |-> 0],
     [id |-> 6, x |-> 0, z |-> Lit[149, 1]]}

BulletPool ==
    {[id |-> 8, x |-> Lit[1, 10], z |-> Lit[1, 1]],
     [id |-> 9, x |-> Lit[2, 10], z |-> Lit[1, 1]],
     [id |-> 10, x |-> 0, z |-> Lit[150, 1]],
     [id |-> 11, x |-> 0, z |-> Lit[-101, 1]]}

\* the first id free after the pools
PoolNextId ==
    1 + (CHOOSE m \in {s.id : s \in EnemyPool \cup BulletPool} :
            \A s \in EnemyPool \cup BulletPool : s.id <= m)

Pick(S, i) == CHOOSE s \in S : s.id = i

\* the world of setup with the enemies E and the bullets B in place of
\* setup's enemy
PoolTag(E, B) ==
    [e \in {ROAD_ID, PLAYER_ID} \cup {s.id : s \in E \cup B} |->
        IF e = ROAD_ID THEN "road"
        ELSE IF e = PLAYER_ID THEN "player"
        ELSE IF e \in {s.id : s \in E} THEN "enemy"
        ELSE "bullet"]

PoolTransform(E, B) ==
    [e \in {ROAD_ID, PLAYER_ID} \cup {s.id : s \in E \cup B} |->
        IF e \in {ROAD_ID, PLAYER_ID} THEN SetupTransform[e]
        ELSE [x |-> Pick(E \cup B, e).x, z |-> Pick(E \cup B, e).z]]

InitBullets ==
    \E E \in SUBSET EnemyPool, B \in SUBSET BulletPool :
        /\ Cardinality(E) <= MaxEnemies
        /\ Cardinality(B) <= MaxBullets
        /\ World(PoolTag(E, B), PoolTransform(E, B), SetupGun, PoolNextId, 0, "idle")

NextBullets ==
    \/ BeginTick(BulletDeltas, {NoKeys}, BulletMaxTime * 40)
    \/ MoveRoad
    \/ MovePlayer
    \/ Shoot
    \/ MoveBullet
    \/ MoveEnemies
    \/ EndTick

SpecBullets == InitBullets /\ [][NextBullets]_vars

---------------------------------------------------------------------------
(* The world with zero, one or two Player entities: the queries of         *)
(* move_player (single_mut) and move_enemies (get_single) are written for  *)
(* any number; setup creates one.  MaxTime is in steps of 200 ms.          *)

SECOND_PLAYER_ID == 4

PlayerSets == {{}, {PLAYER_ID}, {PLAYER_ID, SECOND_PLAYER_ID}}

InitPlayers ==
    \E P \in PlayerSets :
        World([e \in {ROAD_ID, ENEMY_ID} \cup P |->
                    IF e \in P THEN "player" ELSE SetupTag[e]],
              [e \in {ROAD_ID, ENEMY_ID} \cup P |->
                    IF e \in P THEN SetupTransform[PLAYER_ID] ELSE SetupTransform[e]],
              [g \in P \cap {PLAYER_ID} |-> SetupGun[g]],
              SECOND_PLAYER_ID + 1, 0, "idle")

NextPlayers ==
    \/ BeginTick(Deltas, FrameKeys, MaxTime * 200)
    \/ MoveRoad
    \/ MovePlayer
    \/ Shoot
    \/ MoveBullet
    \/ MoveEnemies
    \/ EndTick

SpecPlayers == InitPlayers /\ [][NextPlayers]_vars

---------------------------------------------------------------------------
(* The gun across a long gap.  A real frame gap of ten cooldown periods   *)
(* is among the gaps, and reaches shoot as MAX_DELTA; the gun of setup is  *)
(* therefore never more than a period and a half late.  shoot is written   *)
(* for any gun and any clock reading, so the worlds are the world of setup *)
(* and the same world entered 5.35 s into the run with a gun that fired    *)
(* its one shot at 0.6 s: the next frame finds it ten periods late.        *)
(* GapMaxTime is in seconds after the later entry.                         *)

\* the clock readings (ms) and the guns with which the world is entered
GapWorlds ==
    {[time |-> 0, gun |-> SetupGun, next_id |-> FIRST_FREE_ID],
     [time |-> 5350,
      gun |-> (PLAYER_ID :> [last_fired |-> as_secs_f32(600), handles |-> TRUE]),
      next_id |-> FIRST_FREE_ID + 1]}

InitGap ==
    \E w \in GapWorlds :
        World(SetupTag, SetupTransform, w.gun, w.next_id, w.time,
              IF w.time = 0 THEN "ready" ELSE "idle")

NextGap ==
    \/ BeginTick(GapDeltas, {NoKeys}, 5350 + GapMaxTime * 1000)
    \/ MoveRoad
    \/ MovePlayer
    \/ Shoot
    \/ MoveBullet
    \/ MoveEnemies
    \/ EndTick

SpecGap == InitGap /\ [][NextGap]_vars

---------------------------------------------------------------------------
(* The command buffers: the clock, the gun and the road of setup, with     *)
(* enemies and bullets drawn from pools for the queries of move_bullet     *)
(* (two bullets in front of one enemy among them; the program's one gun    *)
(* never has two bullets this close), over frames in which the gun comes   *)
(* to fire.  BufferMaxTime is in steps of 200 ms.                          *)

BufferEnemyPool ==
    {[id |-> 3, x |-> 0, z |-> ENEMY_START_Z],
     [id |-> 4, x |-> 0, z |-> Lit[-30, 1]]}

BufferBulletPool ==
    {[id |-> 8, x |-> Lit[1, 10], z |-> Lit[1, 1]],
     [id |-> 9, x |-> Lit[-1, 10], z |-> Lit[1, 1]]}

InitBuffer ==
    \E E \in SUBSET BufferEnemyPool, B \in SUBSET BufferBulletPool :
        World(PoolTag(E, B), PoolTransform(E, B), SetupGun, PoolNextId, 0, "idle")

NextBuffer ==
    \/ BeginTick(Deltas, {NoKeys}, BufferMaxTime * 200)
    \/ MoveRoad
    \/ MovePlayer
    \/ Shoot
    \/ MoveBullet
    \/ MoveEnemies
    \/ EndTick

SpecBuffer == InitBuffer /\ [][NextBuffer]_vars

---------------------------------------------------------------------------
(* The life of a bullet: setup, no keys pressed, every frame delta after   *)
(* the first positive, and the frame loop of App::run keeps running frames *)
(* (weak fairness of the whole next-state relation) until the clock's cap. *)
(* LifeMaxTime is in steps of 200 ms.                                      *)

NextLife ==
    \/ BeginTick(LifeDeltas, {NoKeys}, LifeMaxTime * 200)
    \/ EndTick
    \/ MoveEnemies
    \/ MovePlayer
    \/ Shoot
    \/ MoveRoad
    \/ MoveBullet

SpecLife == InitFrames /\ [][NextLife]_vars /\ WF_vars(NextLife)

---------------------------------------------------------------------------
(* Properties *)

\* the step in which system s runs
SystemStep(s) == s \notin ran /\ s \in ran'

ThePlayer == CHOOSE p \in Players : TRUE

\* bullets spawned so far, while none has been despawned
BulletsSpawned == Cardinality(Bullets) + Cardinality(commands.spawn)

(* The properties compare the program's f32 values with the decimal numbers *)
(* of the statements in exact arithmetic.  An f32 v is at most a real t     *)
(* iff v is at most the largest f32 not above t.                            *)

\* the largest f32 not above the decimal n/d  (n/d > 0, d <= 100)
LitBelow(n, d) ==
    LET r == Lit[n, d]
    IN  IF Mant(r) * d <= n * TwoTo(150 - Expo(r)) THEN r ELSE r - 1

\* the largest f32 not above n * 2^e  (n > 0, normal range)
Trunc(n, e) ==
    LET s == BitLen[n] - 24
    IN  IF s <= 0 THEN ((e + s + 149) * FRAC) + (n * TwoTo(-s))
        ELSE ((e + s + 149) * FRAC) + (n \div TwoTo(s))

\* the largest f32 not above the exact sum a + b  (a, b >= 0)
SumBelow(a, b) ==
    IF a = 0 THEN b
    ELSE IF b = 0 THEN a
    ELSE LET e == Min(Expo(a), Expo(b))
             n == (Mant(a) * TwoTo(Expo(a) - e)) + (Mant(b) * TwoTo(Expo(b) - e))
         IN  Trunc(n, e - 150)

\* now - last_fired > 0.5, in exact arithmetic on the two clock readings
Late(g) == elapsed_seconds > SumBelow(gun[g].last_fired, Lit[5, 10])

\* the enemies on which bullet b passes the crossing test and the lateral
\* test, written out with the numbers of the statements
Hits(b) ==
    LET old_z == transform[b].z
        new_z == Sub[old_z, Mul[delta_seconds, Lit[50, 1]]]
    IN  {e \in Enemies :
            /\ old_z >= global_tf[e].z
            /\ new_z <= global_tf[e].z
            /\ Abs(Sub[transform[b].x, global_tf[e].x]) <= Lit[15, 100]}

\* C1: once move_player has run in a frame, the player's x is in
\* [-1.8, 1.8] and its z in [0, 5], for every key state and delta.
C1_PlayerInBounds ==
    "move_player" \in ran =>
        \A p \in Players :
            /\ -LitBelow(18, 10) <= transform[p].x
            /\ transform[p].x <= LitBelow(18, 10)
            /\ Lit[0, 1] <= transform[p].z /\ transform[p].z <= Lit[5, 1]

\* move_player has run with right and up pressed and a positive delta, and
\* the player sits on both clamps: x = 3.6f32 / 2, the f32 next below 1.8
C1_Witness ==
    /\ phase = "update" /\ "move_player" \in ran
    /\ delta > 0 /\ keys.right /\ keys.up
    /\ transform[ThePlayer].x = LitBelow(18, 10)
    /\ transform[ThePlayer].z = 0

\* the simulation time (ms) of which the f32 v is the reading: the integer
\* nearest to v * 1000  (v = 0 or 0.05 <= v < 2^21)
Millis(v) ==
    IF v = 0 THEN 0
    ELSE LET n == Mant(v) * 125
             k == 147 - Expo(v)
         IN  IF k <= 0 THEN n * TwoTo(-k)
             ELSE (n + TwoTo(k - 1)) \div TwoTo(k)

\* now - last_fired > 0.5 s in simulation time, last_fired being the time
\* of the frame of the gun's last shot (0 for a gun that has not fired)
LateTime(g) == time - Millis(gun[g].last_fired) > 500

\* C2 as claimed: in the step of shoot, with now and last_fired in
\* simulation time, a gun with now - last_fired <= 0.5 s keeps last_fired
\* and spawns nothing, a gun with now - last_fired > 0.5 s sets
\* last_fired = now and spawns one bullet at its world position; so a shot
\* of a gun that has fired before comes more than 0.5 s of simulation time
\* after the last one.
C2_Original ==
    [][SystemStep("shoot") =>
        /\ \A g \in DOMAIN gun :
            IF ~LateTime(g)
            THEN gun'[g].last_fired = gun[g].last_fired
            ELSE /\ gun'[g].last_fired = elapsed_seconds
                 /\ \E s \in commands'.spawn \ commands.spawn :
                        s.x = global_tf[g].x /\ s.z = global_tf[g].z
        /\ Cardinality(commands'.spawn \ commands.spawn)
             = Cardinality({g \in DOMAIN gun : LateTime(g)})
        /\ \A g \in DOMAIN gun :
            (gun[g].handles /\ gun'[g].last_fired # gun[g].last_fired)
                => time - Millis(gun[g].last_fired) > 500]_vars

\* C2 as amended: in the step of shoot, with now and last_fired the f32
\* clock readings of the program, a gun with now - last_fired <= 0.5 keeps
\* last_fired and spawns nothing, a gun with now - last_fired > 0.5 sets
\* last_fired = now and spawns one bullet at its world position; so a shot
\* of a gun that has fired before is stamped more than 0.5 after the last
\* one.
C2_Amended ==
    [][SystemStep("shoot") =>
        /\ \A g \in DOMAIN gun :
            IF ~Late(g)
            THEN gun'[g].last_fired = gun[g].last_fired
            ELSE /\ gun'[g].last_fired = elapsed_seconds
                 /\ \E s \in commands'.spawn \ commands.spawn :
                        s.x = global_tf[g].x /\ s.z = global_tf[g].z
        /\ Cardinality(commands'.spawn \ commands.spawn)
             = Cardinality({g \in DOMAIN gun : Late(g)})
        /\ \A g \in DOMAIN gun :
            (gun[g].handles /\ gun'[g].last_fired # gun[g].last_fired)
                => gun'[g].last_fired > SumBelow(gun[g].last_fired, Lit[5, 10])]_vars

\* shoot has run at 1.1 s, the gun's first shot was at 0.6 s: the two f32
\* readings are exactly 0.5 apart and nothing is spawned
C2_Witness ==
    /\ phase = "update" /\ "shoot" \in ran
    /\ time = 1100
    /\ gun[PLAYER_ID].last_fired = as_secs_f32(600)
    /\ Sub[elapsed_seconds, gun[PLAYER_ID].last_fired] = Lit[5, 10]
    /\ commands.spawn = {}

\* C3 as claimed: from the gun of setup, after shoot has run at t = 0 one
\* bullet has been spawned, at t = 0.4 still one, at t = 0.6 two.
C3_Original ==
    (phase = "update" /\ "shoot" \in ran) =>
        /\ time = 0 => BulletsSpawned = 1
        /\ time = 400 => BulletsSpawned = 1
        /\ time = 600 => BulletsSpawned = 2

\* C3 as amended: the gun of setup has last_fired = 0, so after shoot has
\* run at t = 0 or at t = 0.4 no bullet has been spawned, and at t = 0.6
\* exactly one.
C3_Amended ==
    (phase = "update" /\ "shoot" \in ran) =>
        /\ time = 0 => BulletsSpawned = 0
        /\ time = 400 => BulletsSpawned = 0
        /\ time = 600 => BulletsSpawned = 1

\* shoot has run at t = 0.6 in a frame that follows one at t = 0.4, and
\* the first bullet is waiting in the command buffer
C3_Witness ==
    /\ phase = "update" /\ "shoot" \in ran
    /\ time = 600 /\ delta = 200
    /\ Cardinality(commands.spawn) = 1
    /\ Bullets = {}

\* C4: in the step of move_bullet, a bullet for which some enemy passes
\* the crossing test and the lateral test is despawn-requested together
\* with such an enemy and keeps its z; a bullet for which none does gets
\* z = new_z and is despawn-requested only if it is out of range; and an
\* enemy is despawn-requested only if some bullet passes both tests on it.
C4_HitResolution ==
    [][SystemStep("move_bullet") =>
        /\ \A b \in Bullets :
            LET old_z == transform[b].z
                new_z == Sub[old_z, Mul[delta_seconds, Lit[50, 1]]]
            IN  IF Hits(b) # {}
                THEN /\ b \in commands'.despawn
                     /\ Hits(b) \cap commands'.despawn # {}
                     /\ transform'[b].z = old_z
                ELSE /\ transform'[b].z = new_z
                     /\ b \in commands'.despawn
                            => (b \in commands.despawn \/ Abs(old_z) > Lit[100, 1])
        /\ \A e \in Enemies \cap (commands'.despawn \ commands.despawn) :
            \E b \in Bullets : e \in Hits(b)]_vars

\* the scenario of the claim, both halves in one frame: after move_bullet
\* with delta = 0.04 the bullet at lateral offset 0.1 is still at z = 1 and
\* despawn-requested with the enemy at z = 0, and the bullet at lateral
\* offset 0.2 is at z = -1 and not despawn-requested
C4_Witness ==
    /\ phase = "update" /\ "move_bullet" \in ran /\ delta = 40
    /\ Enemies = {4}
    /\ {8, 9} \subseteq Bullets
    /\ transform[8] = [x |-> Lit[1, 10], z |-> Lit[1, 1]]
    /\ transform[9] = [x |-> Lit[2, 10], z |-> Lit[-1, 1]]
    /\ commands.despawn = {4, 8}

\* C5: in the step of move_bullet the enemies despawn-requested are, for
\* each bullet that passes both tests on some enemy, the first such enemy in
\* the order in which the scan visits the enemies, and no other: at most
\* one enemy per bullet.
C5_OneKillPerBullet ==
    [][SystemStep("move_bullet") =>
        LET first(b) ==
                {scan[i] : i \in {i \in DOMAIN scan :
                                    /\ scan[i] \in Hits(b)
                                    /\ \A j \in DOMAIN scan :
                                            j < i => scan[j] \notin Hits(b)}}
        IN  /\ Enemies \cap (commands'.despawn \ commands.despawn)
                = UNION {first(b) : b \in Bullets}
            /\ \A b \in Bullets : Cardinality(first(b)) <= 1
            /\ Cardinality(Enemies \cap (commands'.despawn \ commands.despawn))
                <= Cardinality(Bullets)]_vars

\* move_bullet has run on a single bullet that passed both tests on two
\* enemies (it kept its z, so the tests still read the same), and only the
\* one the scan visited first is despawn-requested: the enemy at z = -5,
\* not the nearer one at z = 0
C5_Witness ==
    /\ phase = "update" /\ "move_bullet" \in ran
    /\ Cardinality(Bullets) = 1
    /\ \E b \in Bullets :
        /\ b \in commands.despawn
        /\ ~OutOfRange(b)
        /\ Hits(b) = {3, 4}
        /\ scan = <<3, 4>>
        /\ Enemies \cap commands.despawn = {3}

\* C6: in the step of move_bullet with a positive delta, a bullet within
\* ENEMY_SIZE/2 laterally of an enemy, at or above the enemy's z, whose
\* displacement takes it below the enemy's z, is not stored below it: it
\* keeps a z at or above the enemy's and is despawn-requested with an enemy.
C6_NoTunnelling ==
    [][(SystemStep("move_bullet") /\ delta > 0) =>
        \A b \in Bullets : \A e \in Enemies :
            ( /\ Abs(Sub[transform[b].x, global_tf[e].x]) <= Lit[15, 100]
              /\ transform[b].z >= global_tf[e].z
              /\ Sub[transform[b].z, Mul[delta_seconds, Lit[50, 1]]] < global_tf[e].z )
            => /\ transform'[b].z >= global_tf[e].z
               /\ b \in commands'.despawn
               /\ Enemies \cap commands'.despawn # {}]_vars

\* move_bullet has run with delta = 0.2: the bullet at z = 1 had a
\* displacement of 10 m, past the enemy at z = 0 by far more than its
\* size, and is still at z = 1, despawn-requested with the enemy
C6_Witness ==
    /\ phase = "update" /\ "move_bullet" \in ran /\ delta = 200
    /\ Enemies = {4} /\ 8 \in Bullets
    /\ transform[8] = [x |-> Lit[1, 10], z |-> Lit[1, 1]]
    /\ {4, 8} \subseteq commands.despawn

\* C7: in the step of move_bullet every bullet with |z| > 100 is
\* despawn-requested, hit or no hit; a request stays in the buffer until
\* the end of the frame, and the end of the frame removes every
\* despawn-requested entity.
C7_OutOfRange ==
    [][/\ SystemStep("move_bullet") =>
            \A b \in Bullets :
                Abs(transform[b].z) > Lit[100, 1] => b \in commands'.despawn
       /\ (phase = "update" /\ phase' = "update") =>
            commands.despawn \subseteq commands'.despawn
       /\ (phase = "update" /\ phase' = "idle") =>
            \A e \in commands.despawn : e \notin DOMAIN tag']_vars

\* move_bullet has run with delta = 0.04 on two out-of-range bullets: the
\* one at z = 150 hit the enemy at z = 149 and kept its z, the one at
\* z = -101 hit nothing and moved to z = -103; both are despawn-requested
C7_Witness ==
    /\ phase = "update" /\ "move_bullet" \in ran /\ delta = 40
    /\ Bullets = {10, 11}
    /\ Enemies = {3, 6}
    /\ transform[10].z = Lit[150, 1]
    /\ transform[11].z = Lit[-103, 1]
    /\ commands.despawn = {6, 10, 11}

\* C8: in the step of move_road, in f32 arithmetic, with
\* z1 = z - delta * ROAD_VEL and rem = z1 mod LEN_SEG (sign of the
\* dividend): if |z1| > 1 and rem < 0.01 the stored z is rem + 18.0,
\* otherwise it is z1.
C8_RoadWrap ==
    [][SystemStep("move_road") =>
        \A r \in Roads :
            LET z1 == Sub[transform[r].z, Mul[delta_seconds, Lit[1, 1]]]
                rem == Rem[z1, Lit[18, 10]]
            IN  transform'[r].z =
                    IF (z1 > Lit[1, 1] \/ z1 < Lit[-1, 1]) /\ rem < Lit[1, 100]
                    THEN Add[rem, Lit[18, 1]]
                    ELSE z1]_vars

\* move_road has run in a frame of 0.25 s late in the run: the decrement
\* took the road from where the frame found it to below -1, the remainder
\* is negative and the road is at rem + 18.0, between 16.75 and 17
C8_Witness ==
    /\ phase = "update" /\ "move_road" \in ran /\ delta = MAX_DELTA
    /\ Sub[global_tf[ROAD_ID].z, Mul[delta_seconds, Lit[1, 1]]] < Lit[-1, 1]
    /\ transform[ROAD_ID].z
         = Add[Rem[Sub[global_tf[ROAD_ID].z, Mul[delta_seconds, Lit[1, 1]]],
                   Lit[18, 10]],
               Lit[18, 1]]
    /\ transform[ROAD_ID].z > Lit[1675, 100]
    /\ transform[ROAD_ID].z < Lit[17, 1]

C10_EnemyNotBelowPlayer ==
    (phase = "update" /\ "move_enemies" \in ran /\ Cardinality(Players) = 1) =>
        \A e \in Enemies : transform[e].z >= transform[ThePlayer].z

\* C11: in the step of move_enemies with no Player entity nothing aborts:
\* one diagnostic line is printed per enemy, the candidate of each enemy is
\* the unclamped z - delta * ENEMY_VEL, nothing else changes, no system
\* that completes in the frame aborts, and every system but move_player
\* that has not run yet in the frame can still run.
C11_NoPlayerNoAbort ==
    /\ [][(SystemStep("move_enemies") /\ Players = {}) =>
            /\ ~aborted' /\ phase' = "update"
            /\ log' = log \o [i \in 1..Cardinality(Enemies) |-> "no player????"]
            /\ \A e \in Enemies :
                EnemyCandidate(e) = Sub[transform[e].z, Mul[Lit[5, 10], delta_seconds]]
            /\ UNCHANGED <<tag, transform, global_tf, gun, commands, next_id>>]_vars
    /\ [][(Players = {} /\ \E s \in Systems : SystemStep(s)) => ~aborted']_vars
    /\ []((Players = {} /\ phase = "update" /\ "move_enemies" \in ran /\ ~aborted) =>
            /\ "move_road" \notin ran => ENABLED MoveRoad
            /\ "shoot" \notin ran => ENABLED Shoot
            /\ "move_bullet" \notin ran => ENABLED MoveBullet)

\* without a player, move_enemies has printed its diagnostic for the one
\* enemy and every system but move_player has run in the frame, unaborted
C11_Witness ==
    /\ Players = {} /\ phase = "update" /\ ~aborted /\ delta > 0
    /\ ran = {"move_enemies", "move_road", "shoot", "move_bullet"}
    /\ log = <<"no player????">>

\* C12: move_player completes only with exactly one Player entity; with
\* zero or several its step is the abort, which changes no position, and
\* nothing runs after the abort.
C12_PlayerCountFatal ==
    [][/\ "move_player" \in ran' => Cardinality(Players) = 1
       /\ Cardinality(Players) # 1
            => \A p \in Players : transform'[p] = transform[p]
       /\ (~aborted /\ aborted')
            => /\ Cardinality(Players) # 1
               /\ transform' = transform
               /\ UNCHANGED <<tag, global_tf, gun, commands, ran>>
       /\ ~aborted]_vars

\* move_player has aborted in a world with two players, both where setup
\* puts a player, after other systems ran in the frame with keys pressed
C12_Witness ==
    /\ aborted /\ Cardinality(Players) = 2
    /\ keys.right /\ keys.down /\ delta > 0
    /\ ran # {}
    /\ \A p \in Players : transform[p] = [x |-> 0, z |-> 0]

\* C17: no step changes the stored position of an enemy that exists before
\* and after it, so every enemy is still at the z setup gave it (-5), with
\* or without a player.
C17_EnemyNeverMoves ==
    /\ [](\A e \in Enemies : transform[e].z = Lit[-5, 1])
    /\ [][\A e \in Enemies : e \in DOMAIN tag' => transform'[e] = transform[e]]_vars

\* move_enemies has run in a later frame with a positive delta and a
\* player: the candidate was 0.1 m lower, the enemy is still at z = -5
C17_Witness ==
    /\ phase = "update" /\ "move_enemies" \in ran
    /\ Cardinality(Players) = 1
    /\ time = 600 /\ delta = 200
    /\ ENEMY_ID \in Enemies
    /\ transform[ENEMY_ID].z = Lit[-5, 1]
    /\ Sub[transform[ENEMY_ID].z, Mul[Lit[5, 10], delta_seconds]] = Lit[-51, 10]

\* C13: in the step of move_player, in f32 arithmetic, the x displacement
\* is +PLAYER_VEL*delta if right is pressed, -PLAYER_VEL*delta if only left
\* is, else 0, whatever up and down are; the z displacement is
\* +PLAYER_VEL*delta if down is pressed, -PLAYER_VEL*delta if only up is,
\* else 0, whatever left and right are (the displacement is read off the
\* position where no clamp cuts it).
C13_InputPriority ==
    [][(SystemStep("move_player") /\ Cardinality(Players) = 1) =>
        LET p == ThePlayer
            dx == IF keys.right THEN Mul[Lit[1, 1], delta_seconds]
                  ELSE IF keys.left THEN Mul[Lit[-1, 1], delta_seconds] ELSE 0
            dz == IF keys.down THEN Mul[Lit[1, 1], delta_seconds]
                  ELSE IF keys.up THEN Mul[Lit[-1, 1], delta_seconds] ELSE 0
            x1 == Add[transform[p].x, dx]
            z1 == Add[transform[p].z, dz]
        IN  /\ (Lit[-18, 10] <= x1 /\ x1 <= Lit[18, 10]) => transform'[p].x = x1
            /\ (Lit[0, 1] <= z1 /\ z1 <= Lit[5, 1]) => transform'[p].z = z1]_vars

\* move_player has run in a frame with all four keys pressed and
\* delta = 0.2, and the player has gone from (0, 0.1) to (0.2, 0.3): right
\* and down won
C13_Witness ==
    /\ phase = "update" /\ "move_player" \in ran
    /\ time = 200 /\ delta = 200
    /\ keys.left /\ keys.right /\ keys.up /\ keys.down
    /\ transform[ThePlayer] = [x |-> Lit[2, 10], z |-> Lit[3, 10]]

\* C14: in the step of shoot the bullets added to the command buffer are
\* one per gun with now - last_fired > 0.5 and none for the others,
\* however many periods have elapsed; so a frame buffers at most one bullet
\* per gun, and the end of the frame adds at most one bullet per gun.
C14_NoCatchUp ==
    [][/\ SystemStep("shoot") =>
            LET new == commands'.spawn \ commands.spawn
            IN  /\ \A g \in DOMAIN gun :
                    Cardinality({s \in new : s.x = global_tf[g].x /\ s.z = global_tf[g].z})
                        = IF Late(g) THEN 1 ELSE 0
                /\ Cardinality(new) <= Cardinality(DOMAIN gun)
                /\ next_id' - next_id = Cardinality(new)
       /\ Cardinality(commands'.spawn) <= Cardinality(DOMAIN gun)
       /\ Cardinality(With("bullet")') - Cardinality(With("bullet"))
            <= Cardinality(DOMAIN gun)]_vars

\* shoot has run at 5.6 s on the gun that last fired at 0.6 s, 5 s and ten
\* periods before, and buffered one bullet, the gun's second
C14_Witness ==
    /\ phase = "update" /\ "shoot" \in ran
    /\ delta = MAX_DELTA /\ time = 5600
    /\ gun[PLAYER_ID].last_fired = elapsed_seconds
    /\ next_id = FIRST_FREE_ID + 2
    /\ Cardinality(commands.spawn) = 1

\* C15: in the step of move_bullet a bullet with |z| > 100 is
\* despawn-requested and still processed: if some enemy passes both tests
\* for it, such an enemy is despawn-requested and the bullet keeps its z,
\* otherwise new_z is stored; the bullet is still in the world after the
\* step (it is removed at the end of the frame).
C15_OutOfRangeStillProcessed ==
    [][SystemStep("move_bullet") =>
        \A b \in Bullets :
            (transform[b].z > Lit[100, 1] \/ transform[b].z < Lit[-100, 1]) =>
                /\ b \in commands'.despawn
                /\ b \in DOMAIN tag'
                /\ Hits(b) # {} => /\ Hits(b) \cap commands'.despawn # {}
                                   /\ transform'[b].z = transform[b].z
                /\ Hits(b) = {} =>
                        transform'[b].z
                            = Sub[transform[b].z, Mul[delta_seconds, Lit[50, 1]]]]_vars

\* move_bullet has run with delta = 0.2 on two out-of-range bullets, both
\* still in the world: the one at z = 150 killed the enemy at z = 149, the
\* one at z = -101 has been moved to z = -111
C15_Witness ==
    /\ phase = "update" /\ "move_bullet" \in ran /\ delta = 200
    /\ Bullets = {10, 11}
    /\ Enemies = {6}
    /\ transform[10].z = Lit[150, 1]
    /\ transform[11].z = Lit[-111, 1]
    /\ commands.despawn = {6, 10, 11}
    /\ log = <<"GOTTEM">>

\* C16: spawns and despawns take effect at the end of the frame only.
\* In the step of move_bullet every bullet is tested against every enemy
\* of the world, despawn-requested or not, so each bullet that passes both
\* tests on an enemy is consumed, and the bullets waiting in the spawn
\* buffer are not in the world and not moved.  No step inside a frame
\* changes the set of entities or takes a request out of the buffers.  The
\* end of the frame removes exactly the despawn-requested entities and adds
\* the spawned bullets where the gun was.  Entity ids are new at every
\* spawn, so a despawned entity never comes back.
C16_BufferedCommands ==
    [][/\ SystemStep("move_bullet") =>
            /\ \A b \in Bullets :
                Hits(b) # {} => (b \in commands'.despawn /\ transform'[b] = transform[b])
            /\ \A s \in commands.spawn : s.id \notin DOMAIN transform'
       /\ SystemStep("shoot") =>
            \A s \in commands'.spawn \ commands.spawn :
                /\ s.id >= next_id /\ s.id < next_id'
                /\ s.id \notin DOMAIN tag'
       /\ (phase = "update" /\ phase' = "update") =>
            /\ DOMAIN tag' = DOMAIN tag
            /\ commands.despawn \subseteq commands'.despawn
            /\ commands.spawn \subseteq commands'.spawn
       /\ (phase = "update" /\ phase' = "idle") =>
            /\ DOMAIN tag' = (DOMAIN tag \ commands.despawn)
                                \cup {s.id : s \in commands.spawn}
            /\ DOMAIN transform' = DOMAIN tag'
            /\ DOMAIN gun' \cap commands.despawn = {}
            /\ \A s \in commands.spawn :
                tag'[s.id] = "bullet" /\ transform'[s.id] = [x |-> s.x, z |-> s.z]
            /\ commands'.despawn = {} /\ commands'.spawn = {}
       /\ \A e \in DOMAIN tag' : e < next_id'
       /\ next_id' >= next_id]_vars

\* move_bullet and shoot have run in the frame at 0.75 s: the two bullets
\* side by side both crossed the one enemy at z = -30, both are
\* despawn-requested with it where the frame found them, and the bullet
\* shoot spawned waits in the buffer, not in the world
C16_Witness ==
    /\ phase = "update" /\ {"move_bullet", "shoot"} \subseteq ran
    /\ time = 750 /\ delta = MAX_DELTA
    /\ Enemies = {4} /\ Bullets = {8, 9}
    /\ commands.despawn = {4, 8, 9}
    /\ transform[8].z = Lit[-24, 1] /\ transform[9].z = Lit[-24, 1]
    /\ log = <<"GOTTEM", "GOTTEM">>
    /\ Cardinality(commands.spawn) = 1
    /\ \A s \in commands.spawn : s.id \notin DOMAIN tag

\* C18 as claimed: from setup's z = 18.0 the road's z always satisfies
\* -1 <= z < 18.01, and a step of move_road whose decrement takes z below
\* -1 stores a z in (16.2, 18.0].
C18_Original ==
    /\ [](\A r \in Roads :
            Lit[-1, 1] <= transform[r].z /\ transform[r].z <= LitBelow(1801, 100))
    /\ [][SystemStep("move_road") =>
            \A r \in Roads :
                Sub[transform[r].z, Mul[delta_seconds, Lit[1, 1]]] < Lit[-1, 1]
                    => /\ LitBelow(162, 10) < transform'[r].z
                       /\ transform'[r].z <= Lit[18, 1]]_vars

\* C18 as amended: from setup's z = 18.0 the road's z always satisfies
\* -1 <= z <= the f32 nearest to 18.01 (18.0100002..., just above 18.01),
\* and a step of move_road whose decrement takes z below -1 stores a z in
\* (16.2, 18.0].
C18_Amended ==
    /\ [](\A r \in Roads :
            Lit[-1, 1] <= transform[r].z /\ transform[r].z <= Lit[1801, 100])
    /\ [][SystemStep("move_road") =>
            \A r \in Roads :
                Sub[transform[r].z, Mul[delta_seconds, Lit[1, 1]]] < Lit[-1, 1]
                    => /\ LitBelow(162, 10) < transform'[r].z
                       /\ transform'[r].z <= Lit[18, 1]]_vars

\* move_road has run 1.79 s into the run, after seven frames of 0.25 s
\* and one of 0.04 s: the decrement took the road to 16.21, the remainder
\* is just under 0.01 and the road is at the f32 nearest to 18.01, which
\* is above 18.01
C18_Witness ==
    /\ phase = "update" /\ "move_road" \in ran
    /\ time = 1790
    /\ transform[ROAD_ID].z = Lit[1801, 100]
    /\ transform[ROAD_ID].z > LitBelow(1801, 100)

\* the enemies on which bullet b passed both tests where it was when the
\* frame started (GlobalTransform holds the positions of the frame's start)
StartHits(b) ==
    {e \in Enemies :
        /\ global_tf[b].z >= global_tf[e].z
        /\ Sub[global_tf[b].z, Mul[delta_seconds, Lit[50, 1]]] <= global_tf[e].z
        /\ Abs(Sub[global_tf[b].x, global_tf[e].x]) <= Lit[15, 100]}

\* the first enemy of StartHits(b) in the order of the frame's scan
StartKill(b) ==
    {scan[i] : i \in {i \in DOMAIN scan :
                        /\ scan[i] \in StartHits(b)
                        /\ \A j \in DOMAIN scan : j < i => scan[j] \notin StartHits(b)}}

\* C19: the systems do not race.  Inside a frame the world is a function of
\* the frame's start (positions, delta, keys, scan order) and of the set of
\* systems that have run, not of their order: the road, the player and the
\* bullets are where their own system puts them from where they started,
\* the enemies are where they started, and the despawn buffer and the kill
\* lines are those of move_bullet.  shoot alone writes the guns, the spawn
\* buffer and the id counter, from the guns, the clock and the frame-start
\* world positions, which no other system writes.  So the frame ends in the
\* same state whatever the order.
C19_OrderIndependent ==
    /\ []((phase = "update" /\ ~aborted) =>
            /\ \A r \in Roads :
                transform[r] =
                    IF "move_road" \in ran
                    THEN [global_tf[r] EXCEPT
                            !.z = RoadStep(global_tf[r].z, delta_seconds)]
                    ELSE global_tf[r]
            /\ \A p \in Players :
                transform[p] =
                    IF "move_player" \in ran
                    THEN PlayerStep(global_tf[p], keys, delta_seconds)
                    ELSE global_tf[p]
            /\ \A e \in Enemies : transform[e] = global_tf[e]
            /\ \A b \in Bullets :
                transform[b] =
                    IF "move_bullet" \in ran /\ StartHits(b) = {}
                    THEN [global_tf[b] EXCEPT
                            !.z = Sub[global_tf[b].z, Mul[delta_seconds, Lit[50, 1]]]]
                    ELSE global_tf[b]
            /\ commands.despawn =
                    IF "move_bullet" \in ran
                    THEN {b \in Bullets : Abs(global_tf[b].z) > Lit[100, 1]}
                            \cup {b \in Bullets : StartHits(b) # {}}
                            \cup UNION {StartKill(b) : b \in Bullets}
                    ELSE {}
            /\ Cardinality({i \in DOMAIN log : log[i] = "GOTTEM"}) =
                    IF "move_bullet" \in ran
                    THEN Cardinality({b \in Bullets : StartHits(b) # {}})
                    ELSE 0
            /\ "shoot" \notin ran => commands.spawn = {})
    /\ [][(\E s \in Systems : SystemStep(s)) =>
            /\ SystemStep("shoot") =>
                /\ \A g \in Guns :
                    gun'[g].last_fired =
                        IF Late(g) THEN elapsed_seconds ELSE gun[g].last_fired
                /\ {[x |-> s.x, z |-> s.z] : s \in commands'.spawn}
                        = {global_tf[g] : g \in {h \in Guns : Late(h)}}
                /\ Cardinality(commands'.spawn) = Cardinality({h \in Guns : Late(h)})
                /\ next_id' = next_id + Cardinality(commands'.spawn)
            /\ ~SystemStep("shoot") => UNCHANGED <<gun, next_id>>
            /\ UNCHANGED <<tag, global_tf, time, delta, keys, scan>>]_vars

\* a frame in which the systems run against their order of registration:
\* move_enemies, move_bullet and shoot have run, shoot has buffered the
\* first bullet, move_player and move_road have not run yet, down and
\* right are pressed
C19_Witness ==
    /\ phase = "update" /\ ran = {"move_enemies", "move_bullet", "shoot"}
    /\ time = 600 /\ delta = 200
    /\ keys.down /\ keys.right
    /\ Cardinality(commands.spawn) = 1
    /\ transform[PLAYER_ID] = [x |-> Lit[2, 10], z |-> Lit[2, 10]]

\* the first bullets the gun spawns
LifeBullets == FIRST_FREE_ID .. (FIRST_FREE_ID + 1)

\* C20: with every delta positive, no step raises the stored z of a
\* bullet; no bullet survives a frame it started below z = -100 (between
\* frames every bullet is within the last displacement of -100); and every
\* bullet in the world at least 4 s before the clock's cap is eventually
\* out of the world.
C20_BulletLifeBounded ==
    /\ [][\A b \in Bullets :
            b \in DOMAIN tag' => transform'[b].z <= transform[b].z]_vars
    /\ [](phase = "idle" =>
            \A b \in Bullets :
                transform[b].z >= Sub[Lit[-100, 1], Mul[delta_seconds, Lit[50, 1]]])
    /\ \A b \in LifeBullets :
            (b \in Bullets /\ time <= LifeMaxTime * 200 - 4000)
                ~> (b \notin DOMAIN tag)

\* between two frames: the first bullet is gone with the enemy it hit, the
\* second bullet, which had no enemy left to hit, is gone too, and a third
\* has been spawned
C20_Witness ==
    /\ phase = "idle"
    /\ Enemies = {}
    /\ next_id >= FIRST_FREE_ID + 3
    /\ FIRST_FREE_ID \notin DOMAIN tag
    /\ (FIRST_FREE_ID + 1) \notin DOMAIN tag
====
